---------------------------- MODULE Spec2Model ----------------------------
(* A model of scraper.py: the schedule page is fetched, extract_blocks    *)
(* walks the p/div elements of the div.rte container and collects the red *)
(* "Training <time>-<time>" runs as ClosedBlocks, build_ics serialises    *)
(* them for the current week, and main writes gym-closed.ics.             *)
(*                                                                        *)
(* Text is modelled as sequences of one-character strings where the code  *)
(* inspects characters (inline styles), and as sequences of text pieces   *)
(* where the code inspects words (element text, time tokens).             *)
EXTENDS Integers, Sequences, FiniteSets, TLC

VARIABLES
    site,         \* the page the schedule URL serves during this run
    pc,           \* main's position
    resp,         \* the fetched page (resp.text), NoPage before the fetch
    err,          \* the exception that ended the run, "none" otherwise
    i,            \* extract_blocks: index of the next p/div of find_all
    current_day,  \* extract_blocks: the day cursor
    blocks,       \* extract_blocks: the list of ClosedBlocks
    origin,       \* history: for each block, the span and the element visited
    week_start,   \* main: monday_of_week(today)
    clock,        \* the wall clock reading of the run
    ics,          \* the document build_ics returned
    file,         \* gym-closed.ics on disk
    calls         \* the documents of successive build_ics calls (SpecBuild)

vars == <<site, pc, resp, err, i, current_day, blocks, origin, week_start,
          clock, ics, file, calls>>

(* ---------------------------------------------------------------------- *)
(* Bounds of the model                                                    *)
(* ---------------------------------------------------------------------- *)
MaxElems == 3       \* p/div elements inside the container
MaxDepth == 2       \* nesting depth of p/div elements in the container
MaxHourTens == 1    \* largest leading digit of a two-digit hour token
MaxBlocks == 2      \* blocks handed to build_ics in SpecBuild

(* ---------------------------------------------------------------------- *)
(* Character strings                                                      *)
(* ---------------------------------------------------------------------- *)
UpperLetters ==
    <<"A","B","C","D","E","F","G","H","I","J","K","L","M",
      "N","O","P","Q","R","S","T","U","V","W","X","Y","Z">>
LowerLetters ==
    <<"a","b","c","d","e","f","g","h","i","j","k","l","m",
      "n","o","p","q","r","s","t","u","v","w","x","y","z">>

LowerChar(c) ==
    IF \E k \in 1..26 : UpperLetters[k] = c
    THEN LowerLetters[CHOOSE k \in 1..26 : UpperLetters[k] = c]
    ELSE c

\* str.lower()
StrLower(s) == [k \in 1..Len(s) |-> LowerChar(s[k])]

IsSpaceChar(c) == c = " "

\* str.replace(" ", ""): only the space character is removed
RemoveSpaces(s) == SelectSeq(s, LAMBDA c : ~IsSpaceChar(c))

\* sub in s
Contains(s, sub) ==
    \E k \in 0..(Len(s) - Len(sub)) : SubSeq(s, k + 1, k + Len(sub)) = sub

(* ---------------------------------------------------------------------- *)
(* RED_MARKERS and style_has_red                                          *)
(* ---------------------------------------------------------------------- *)
MarkerRgbSpaced ==
    <<"r","g","b","(","2","5","5",","," ","4","2",","," ","0",")">>
MarkerRgb ==
    <<"r","g","b","(","2","5","5",",","4","2",",","0",")">>
MarkerHex ==
    <<"#","f","f","2","a","0","0">>
MarkerHexUpper ==
    <<"#","F","F","2","A","0","0">>
MarkerColorRed ==
    <<"c","o","l","o","r",":","r","e","d">>

RED_MARKERS == {MarkerRgbSpaced, MarkerRgb, MarkerHex, MarkerHexUpper}

\* A span's style attribute: sp.get("style") is None when has is FALSE.
NoStyle == [has |-> FALSE, chars |-> <<>>]
Styled(chars) == [has |-> TRUE, chars |-> chars]

style_has_red(style) ==
    IF ~style.has \/ style.chars = <<>>
    THEN FALSE
    ELSE LET s == RemoveSpaces(StrLower(style.chars))
         IN  \/ \E marker \in RED_MARKERS :
                    Contains(s, RemoveSpaces(StrLower(marker)))
             \/ Contains(s, MarkerColorRed)

StyleRgbSpaced ==
    <<"c","o","l","o","r",":"," ","r","g","b","(","2","5","5",","," ","4","2",","," ","0",")",";">>
StyleRgbTight ==
    <<"c","o","l","o","r",":","r","g","b","(","2","5","5",",","4","2",",","0",")">>
StyleRgbWide ==
    <<"c","o","l","o","r",":"," ","R","G","B","("," ","2","5","5"," ",","," ","4","2"," ",","," ","0"," ",")">>
StyleHexUpper ==
    <<"c","o","l","o","r",":"," ","#","F","F","2","A","0","0">>
StyleHexMixed ==
    <<"C","o","l","o","r",":","#","F","f","2","a","0","0",";">>
StyleNamedRed ==
    <<"C","O","L","O","R"," ",":"," ","R","e","d">>
StyleRgbTab ==
    <<"c","o","l","o","r",":","\t","r","g","b","(","2","5","5",",","\t","4","2",",","\t","0",")">>
StyleBlack ==
    <<"c","o","l","o","r",":"," ","r","g","b","(","0",","," ","0",","," ","0",")",";">>
StyleOtherHex ==
    <<"c","o","l","o","r",":"," ","#","f","f","2","a","0","1">>
StyleBold ==
    <<"f","o","n","t","-","w","e","i","g","h","t",":"," ","b","o","l","d">>

\* The inline styles the sample pages use.
SampleStyles ==
    {NoStyle, Styled(<<>>)} \cup
    {Styled(c) : c \in {StyleRgbSpaced, StyleRgbTight, StyleRgbWide,
                        StyleHexUpper, StyleHexMixed, StyleNamedRed,
                        StyleRgbTab, StyleBlack, StyleOtherHex, StyleBold}}


(* ---------------------------------------------------------------------- *)
(* Time tokens, TIME_RANGE_RE and parse_ampm                              *)
(* ---------------------------------------------------------------------- *)
\* A token matched by \d{1,2}:\d{2}\s*(?:am|pm) under re.IGNORECASE:
\* hh the hour digits, mm the two minute digits, ws the whitespace matched
\* by \s* and ap the letters of am/pm as written.
Tok(hh, mm, ws, ap) == [hh |-> hh, mm |-> mm, ws |-> ws, ap |-> ap]

NoTok == Tok(<<>>, <<>>, <<>>, <<>>)

\* datetime.time with second = 0, microsecond = 0; ok = FALSE stands for the
\* ValueError strptime raises.
Time(h, m) == [ok |-> TRUE, hour |-> h, minute |-> m, second |-> 0]
ValueError == [ok |-> FALSE, hour |-> 0, minute |-> 0, second |-> 0]

\* %I of strptime: 1[0-2]|0[1-9]|[1-9], followed by ":".
HourDirectiveMatches(hh) ==
    \/ Len(hh) = 1 /\ hh[1] \in 1..9
    \/ Len(hh) = 2 /\ hh[1] = 1 /\ hh[2] \in 0..2
    \/ Len(hh) = 2 /\ hh[1] = 0 /\ hh[2] \in 1..9

\* %M of strptime: [0-5]\d|\d, followed by %p.
MinuteDirectiveMatches(mm) == Len(mm) = 2 /\ mm[1] \in 0..5

DigitsValue(ds) == IF Len(ds) = 1 THEN ds[1] ELSE 10 * ds[1] + ds[2]

\* 12 is not wrapped to 0: "add 12 when pm".
parse_ampm_no_noon(t) ==
    LET s  == [t EXCEPT !.ws = RemoveSpaces(StrLower(t.ws)),
                        !.ap = StrLower(t.ap)]
        h  == DigitsValue(s.hh)
    IN  IF /\ HourDirectiveMatches(s.hh)
           /\ MinuteDirectiveMatches(s.mm)
           /\ s.ws = <<>>
           /\ s.ap \in {<<"a","m">>, <<"p","m">>}
        THEN Time(IF s.ap = <<"p","m">> THEN (h + 12) % 24 ELSE h,
                  DigitsValue(s.mm))
        ELSE ValueError

parse_ampm(t) ==
    LET s  == [t EXCEPT !.ws = RemoveSpaces(StrLower(t.ws)),
                        !.ap = StrLower(t.ap)]
        h  == DigitsValue(s.hh)
    IN  IF /\ HourDirectiveMatches(s.hh)
           /\ MinuteDirectiveMatches(s.mm)
           /\ s.ws = <<>>
           /\ s.ap \in {<<"a","m">>, <<"p","m">>}
        THEN Time((h % 12) + (IF s.ap = <<"p","m">> THEN 12 ELSE 0),
                  DigitsValue(s.mm))
        ELSE ValueError

(* ---------------------------------------------------------------------- *)
(* Text of elements                                                       *)
(* ---------------------------------------------------------------------- *)
\* A piece of text (one text node, stripped). kind is
\*   "word"     one word, written in form upper/lower/title and followed by
\*              `colons` colons ("MONDAY:", "wednesday", "Hours:")
\*   "training" the text "Training <t1>-<t2>"
\*   "note"     text that holds the word Training and no time range
\*   "plain"    text without the word Training
Word(w, form, colons) ==
    [kind |-> "word", word |-> w, form |-> form, colons |-> colons,
     t1 |-> NoTok, t2 |-> NoTok]
Training(t1, t2) ==
    [kind |-> "training", word |-> "Training", form |-> "title", colons |-> 0,
     t1 |-> t1, t2 |-> t2]
Note ==
    [kind |-> "note", word |-> "Training TBD", form |-> "title", colons |-> 0,
     t1 |-> NoTok, t2 |-> NoTok]
Plain ==
    [kind |-> "plain", word |-> "Open Gym 8:00am-9:00am", form |-> "title",
     colons |-> 0, t1 |-> NoTok, t2 |-> NoTok]

DAYS == <<"MONDAY", "TUESDAY", "WEDNESDAY", "THURSDAY", "FRIDAY", "SATURDAY",
          "SUNDAY">>

None == "None"

\* normalize_day of a flattened text: strip, upper, rstrip(":"), then the
\* membership test. Several pieces are joined by spaces and are no day name.
normalize_day(text) ==
    IF Len(text) = 1 /\ text[1].kind = "word"
    THEN LET s == [text[1] EXCEPT !.form = "upper", !.colons = 0]
         IN  IF \E k \in 1..Len(DAYS) : DAYS[k] = s.word
             THEN s.word
             ELSE None
    ELSE None

\* "Training" in sp_text
HasTrainingWord(text) ==
    \E k \in 1..Len(text) : text[k].kind \in {"training", "note"}

\* TIME_RANGE_RE.search(sp_text): the first match, 0 when there is none.
TimeRangeSearch(text) ==
    IF \E k \in 1..Len(text) : text[k].kind = "training"
    THEN CHOOSE k \in 1..Len(text) :
            /\ text[k].kind = "training"
            /\ \A j \in 1..(k - 1) : text[j].kind # "training"
    ELSE 0

(* ---------------------------------------------------------------------- *)
(* The page: the container and its p/div elements in document order       *)
(* ---------------------------------------------------------------------- *)
Span(style, text) == [style |-> style, text |-> text]

\* A p or div inside the container: its nesting depth, its own text nodes
\* and its own span children (own text first, then the spans, then the
\* nested p/div elements, which follow it in the sequence).
Elem(depth, text, spans) == [depth |-> depth, text |-> text, spans |-> spans]

RECURSIVE Concat(_)
Concat(ss) == IF ss = <<>> THEN <<>> ELSE Head(ss) \o Concat(Tail(ss))

\* The last element of the subtree of element k.
SubtreeEnd(elems, k) ==
    CHOOSE e \in k..Len(elems) :
        /\ \A j \in (k + 1)..e : elems[j].depth > elems[k].depth
        /\ e = Len(elems) \/ elems[e + 1].depth <= elems[k].depth

OwnText(el) ==
    el.text \o Concat([s \in 1..Len(el.spans) |-> el.spans[s].text])

\* p.get_text(" ", strip=True): the text pieces of the whole subtree.
get_text(elems, k) ==
    Concat([j \in 1..(SubtreeEnd(elems, k) - k + 1) |->
                OwnText(elems[k + j - 1])])

OwnSpans(elems, j) ==
    [s \in 1..Len(elems[j].spans) |->
        [owner |-> j, pos |-> s, style |-> elems[j].spans[s].style,
         text |-> elems[j].spans[s].text]]

\* p.find_all("span"): the spans of the whole subtree, in document order.
find_all_span(elems, k) ==
    Concat([j \in 1..(SubtreeEnd(elems, k) - k + 1) |->
                OwnSpans(elems, k + j - 1)])

(* ---------------------------------------------------------------------- *)
(* Dates: datetime.date, timedelta and weekday                            *)
(* ---------------------------------------------------------------------- *)
Date(y, m, d) == [year |-> y, month |-> m, day |-> d]

IsLeap(y) == y % 4 = 0 /\ (y % 100 # 0 \/ y % 400 = 0)

DaysInMonth(y, m) ==
    IF m = 2 THEN (IF IsLeap(y) THEN 29 ELSE 28)
    ELSE IF m \in {4, 6, 9, 11} THEN 30 ELSE 31

RECURSIVE DaysBeforeMonth(_, _)
DaysBeforeMonth(y, m) ==
    IF m = 1 THEN 0 ELSE DaysBeforeMonth(y, m - 1) + DaysInMonth(y, m - 1)

\* date.toordinal(): 0001-01-01 is day 1.
ToOrdinal(d) ==
    LET y == d.year - 1
    IN  y * 365 + (y \div 4) - (y \div 100) + (y \div 400)
          + DaysBeforeMonth(d.year, d.month) + d.day

\* date.weekday(): Monday is 0.
Weekday(d) == (ToOrdinal(d) + 6) % 7

NextDay(d) ==
    IF d.day < DaysInMonth(d.year, d.month) THEN [d EXCEPT !.day = d.day + 1]
    ELSE IF d.month < 12 THEN Date(d.year, d.month + 1, 1)
    ELSE Date(d.year + 1, 1, 1)

PrevDay(d) ==
    IF d.day > 1 THEN [d EXCEPT !.day = d.day - 1]
    ELSE IF d.month > 1
         THEN Date(d.year, d.month - 1, DaysInMonth(d.year, d.month - 1))
    ELSE Date(d.year - 1, 12, 31)

\* d + timedelta(days=n) and d - timedelta(days=n), n >= 0
RECURSIVE AddDays(_, _)
AddDays(d, n) == IF n = 0 THEN d ELSE AddDays(NextDay(d), n - 1)

RECURSIVE SubDays(_, _)
SubDays(d, n) == IF n = 0 THEN d ELSE SubDays(PrevDay(d), n - 1)

monday_of_week(d) == SubDays(d, Weekday(d))

(* ---------------------------------------------------------------------- *)
(* build_ics                                                              *)
(* ---------------------------------------------------------------------- *)
ClosedBlock(day, start, end) == [day_name |-> day, start |-> start, end |-> end]

DigitChars == <<"0", "1", "2", "3", "4", "5", "6", "7", "8", "9">>

\* n written with `width` digits, zero padded (%Y, %m, %d, %H, %M, %S, :02d)
RECURSIVE Num(_, _)
Num(n, width) ==
    IF width = 0 THEN <<>>
    ELSE Append(Num(n \div 10, width - 1), DigitChars[(n % 10) + 1])

\* dt.strftime("%Y%m%dT%H%M%S")
format_dt(dt) ==
    Num(dt.date.year, 4) \o Num(dt.date.month, 2) \o Num(dt.date.day, 2)
      \o <<"T">>
      \o Num(dt.time.hour, 2) \o Num(dt.time.minute, 2) \o Num(dt.time.second, 2)

\* str(date): YYYY-MM-DD;  str(time): HH:MM:SS
StrDate(d) == Num(d.year, 4) \o <<"-">> \o Num(d.month, 2) \o <<"-">> \o Num(d.day, 2)
StrTime(t) == Num(t.hour, 2) \o <<":">> \o Num(t.minute, 2) \o <<":">> \o Num(t.second, 2)

\* datetime.combine(date, time, tzinfo=TZ)
Combine(d, t) == [date |-> d, time |-> t, tz |-> "America/New_York"]

\* uuid.uuid5(uuid.NAMESPACE_URL, name): a deterministic, collision-free
\* digest of the name.
uuid5(name) == <<"uuid5(NAMESPACE_URL,">> \o name \o <<")">>

\* str.title() of a day name
TitleDays == <<"Monday", "Tuesday", "Wednesday", "Thursday", "Friday",
               "Saturday", "Sunday">>
DayIndex(day) == CHOOSE k \in 1..Len(DAYS) : DAYS[k] = day
Title(day) == TitleDays[DayIndex(day)]

SCHEDULE_URL == "https://mtolympusgym.us/pages/weekly-schedule"

\* Text is a sequence of chunks, the characters the format escapes being
\* chunks of their own.
EscapeChunk(c) ==
    IF c = "\\" THEN "\\\\"
    ELSE IF c = "\n" THEN "\\n"
    ELSE IF c = "," THEN "\\,"
    ELSE IF c = ";" THEN "\\;"
    ELSE c

ics_escape(s) == [k \in 1..Len(s) |-> EscapeChunk(s[k])]

\* A content line "name;param:value" and the terminator that follows it.
Line(name, param, value, eol) ==
    [name |-> name, param |-> param, value |-> value, eol |-> eol]
CrLf(name, value) == Line(name, "", value, "\r\n")
Lf(name, value) == Line(name, "", value, "\n")

\* vtimezone_america_new_york().strip(): one element of `lines`, its inner
\* lines ended by "\n".
vtimezone_america_new_york ==
    << Lf("BEGIN", <<"VTIMEZONE">>),
       Lf("TZID", <<"America/New_York">>),
       Lf("X-LIC-LOCATION", <<"America/New_York">>),
       Lf("BEGIN", <<"DAYLIGHT">>),
       Lf("TZOFFSETFROM", <<"-0500">>),
       Lf("TZOFFSETTO", <<"-0400">>),
       Lf("TZNAME", <<"EDT">>),
       Lf("DTSTART", <<"19700308T020000">>),
       Lf("RRULE", <<"FREQ=YEARLY", ";", "BYMONTH=3", ";", "BYDAY=2SU">>),
       Lf("END", <<"DAYLIGHT">>),
       Lf("BEGIN", <<"STANDARD">>),
       Lf("TZOFFSETFROM", <<"-0400">>),
       Lf("TZOFFSETTO", <<"-0500">>),
       Lf("TZNAME", <<"EST">>),
       Lf("DTSTART", <<"19701101T020000">>),
       Lf("RRULE", <<"FREQ=YEARLY", ";", "BYMONTH=11", ";", "BYDAY=1SU">>),
       Lf("END", <<"STANDARD">>),
       CrLf("END", <<"VTIMEZONE">>) >>

\* Weeks counted from Sunday.
day_to_offset_sunday_first(day) == DayIndex(day) % 7

\* day_to_offset[b.day_name]
day_to_offset(day) == DayIndex(day) - 1

\* f"{uuid.uuid5(uuid.NAMESPACE_URL, f'{event_date}-{b.start}-{b.end}')}@mtolympusgym.us"
event_uid(event_date, b) ==
    uuid5(StrDate(event_date) \o <<"-">> \o StrTime(b.start)
            \o <<"-">> \o StrTime(b.end))
      \o <<"@mtolympusgym.us">>

\* The ten lines of one VEVENT.
event_record(b, event_date, uid, now_utc) ==
    LET dt_start == Combine(event_date, b.start)
        dt_end == Combine(event_date, b.end)
        summary == <<"Gym Closed (PT) [", Title(b.day_name), "]">>
        description ==
            <<"Mt. Olympus Open Gym unavailable (red slot). Source: ",
              SCHEDULE_URL>>
    IN  << CrLf("BEGIN", <<"VEVENT">>),
           CrLf("UID", uid),
           CrLf("DTSTAMP", now_utc),
           Line("DTSTART", "TZID=America/New_York", format_dt(dt_start), "\r\n"),
           Line("DTEND", "TZID=America/New_York", format_dt(dt_end), "\r\n"),
           CrLf("SUMMARY", ics_escape(summary)),
           CrLf("DESCRIPTION", ics_escape(description)),
           CrLf("STATUS", <<"CONFIRMED">>),
           CrLf("TRANSP", <<"OPAQUE">>),
           CrLf("END", <<"VEVENT">>) >>

\* The identifier drawn from the clock (uuid1) instead of the event.
event_lines_uuid1(b, ws, now_utc) ==
    LET event_date == AddDays(ws, day_to_offset(b.day_name))
    IN  event_record(b, event_date,
                     <<"uuid1(">> \o now_utc \o <<")", "@mtolympusgym.us">>,
                     now_utc)

\* The lines build_ics appends for block b (the body of its for loop).
event_lines(b, ws, now_utc) ==
    LET event_date == AddDays(ws, day_to_offset(b.day_name))
    IN  event_record(b, event_date, event_uid(event_date, b), now_utc)

\* datetime.now(tz=UTC).strftime("%Y%m%dT%H%M%SZ")
now_stamp(utc) == format_dt(utc) \o <<"Z">>

\* The time-zone block appended inside the loop, once per block.
build_ics_zone_per_event(bs, ws, utc) ==
    << CrLf("BEGIN", <<"VCALENDAR">>),
       CrLf("VERSION", <<"2.0">>),
       CrLf("PRODID", <<"-//kmonopoli//mt-olympus-closed//EN">>),
       CrLf("CALSCALE", <<"GREGORIAN">>),
       CrLf("METHOD", <<"PUBLISH">>) >>
      \o Concat([k \in 1..Len(bs) |->
                    vtimezone_america_new_york
                      \o event_lines(bs[k], ws, now_stamp(utc))])
      \o << CrLf("END", <<"VCALENDAR">>) >>

build_ics(bs, ws, utc) ==
    << CrLf("BEGIN", <<"VCALENDAR">>),
       CrLf("VERSION", <<"2.0">>),
       CrLf("PRODID", <<"-//kmonopoli//mt-olympus-closed//EN">>),
       CrLf("CALSCALE", <<"GREGORIAN">>),
       CrLf("METHOD", <<"PUBLISH">>) >>
      \o vtimezone_america_new_york
      \o Concat([k \in 1..Len(bs) |-> event_lines(bs[k], ws, now_stamp(utc))])
      \o << CrLf("END", <<"VCALENDAR">>) >>

(* ---------------------------------------------------------------------- *)
(* The pages, clock readings and files of the model                       *)
(* ---------------------------------------------------------------------- *)
Am == <<"a","m">>
Pm == <<"p","m">>
T0600am == Tok(<<6>>, <<0,0>>, <<>>, Am)
T0700am == Tok(<<7>>, <<0,0>>, <<>>, Am)
T0800am == Tok(<<0,8>>, <<0,0>>, <<>>, Am)
T0530PM == Tok(<<5>>, <<3,0>>, <<>>, <<"P","M">>)
T0700pm == Tok(<<7>>, <<0,0>>, <<" ">>, Pm)
T1145pm == Tok(<<1,1>>, <<4,5>>, <<>>, Pm)
T1215am == Tok(<<1,2>>, <<1,5>>, <<>>, Am)
T1300pm == Tok(<<1,3>>, <<0,0>>, <<>>, Pm)
T0200pm == Tok(<<2>>, <<0,0>>, <<>>, Pm)

Red == Styled(StyleRgbSpaced)

\* What one p/div holds of its own.
HdrMonday == [text |-> <<Word("MONDAY", "upper", 1)>>, spans |-> <<>>]
HdrWednesday == [text |-> <<Word("WEDNESDAY", "lower", 0)>>, spans |-> <<>>]
Wrapper == [text |-> <<>>, spans |-> <<>>]
LineRed ==
    [text |-> <<>>, spans |-> <<Span(Red, <<Training(T0530PM, T0700pm)>>)>>]
LineTwo ==
    [text |-> <<>>,
     spans |-> <<Span(Red, <<Training(T0600am, T0700am)>>),
                 Span(NoStyle, <<Training(T0700am, T0800am)>>)>>]
LineDouble ==
    [text |-> <<>>,
     spans |-> <<Span(Styled(StyleHexUpper), <<Training(T0600am, T0700am)>>),
                 Span(Red, <<Training(T1145pm, T1215am)>>)>>]
LineBad ==
    [text |-> <<>>, spans |-> <<Span(Red, <<Training(T1300pm, T0200pm)>>)>>]

Contents ==
    {HdrMonday, HdrWednesday, Wrapper, LineRed, LineTwo, LineDouble, LineBad}

Elements ==
    {Elem(d, c.text, c.spans) : d \in 1..MaxDepth, c \in Contents}

\* Pre-order depths of a forest: the first element is a child of the
\* container, each next one at most one level below its predecessor, and
\* only an element without text and spans of its own (a wrapping div) has
\* p/div elements nested in it.
WellNested(elems) ==
    /\ Len(elems) > 0 => elems[1].depth = 1
    /\ \A k \in 1..(Len(elems) - 1) :
          /\ elems[k + 1].depth <= elems[k].depth + 1
          /\ elems[k + 1].depth = elems[k].depth + 1
                => elems[k].text = <<>> /\ elems[k].spans = <<>>

ElemSeqs ==
    UNION {{e \in [1..n -> Elements] : WellNested(e)} : n \in 0..MaxElems}

Page(classes, elems) == [classes |-> classes, elems |-> elems]

NoPage == Page({"none"}, <<>>)

\* Pages whose container holds every arrangement of the sample elements.
StructPages == {Page({"rte"}, e) : e \in ElemSeqs}

SampleTexts ==
    { <<Training(T1145pm, T1215am)>>, <<Note>>, <<Plain>>,
      <<Word("Schedule", "title", 0)>>, <<Plain, Training(T0600am, T0700am)>>,
      <<>> }

\* Pages of one line with one span, in every sample style, after a header,
\* before it and without any; and pages without the schedule container.
StylePages ==
    UNION { { Page({"rte", "page-width"},
                   <<Elem(1, HdrMonday.text, <<>>), Elem(1, <<>>, <<Span(st, tx)>>)>>),
              Page({"rte"},
                   <<Elem(1, <<>>, <<Span(st, tx)>>), Elem(1, HdrMonday.text, <<>>)>>),
              Page({"rte"},
                   <<Elem(1, <<Word("TUESDAY", "title", 2)>>, <<>>),
                     Elem(1, <<Plain>>, <<Span(st, tx)>>)>>) }
            : st \in SampleStyles, tx \in SampleTexts }

NoContainerPages ==
    { Page(cl, e) : cl \in {{}, {"page-width"}, {"rte-like"}},
                    e \in { <<>>,
                            <<Elem(1, HdrMonday.text, <<>>),
                              Elem(1, LineTwo.text, LineTwo.spans)>>,
                            <<Elem(1, LineRed.text, LineRed.spans)>> } }

Pages == StructPages \cup StylePages \cup NoContainerPages

\* Time tokens of every shape the pattern matches.
HourTokens ==
    {<<d>> : d \in 0..9} \cup {<<a, b>> : a \in 0..MaxHourTens, b \in 0..9}
MinuteTokens == {<<0,0>>, <<0,7>>, <<1,5>>, <<4,5>>, <<5,9>>, <<6,0>>, <<9,9>>}
Tokens ==
    { Tok(hh, mm, ws, ap) :
        hh \in HourTokens, mm \in MinuteTokens,
        ws \in {<<>>, <<" ">>, <<"\t">>},
        ap \in {Am, Pm, <<"A","M">>, <<"P","m">>} }

\* Pages of a header and one red run, one of its tokens of any shape.
TokenPages ==
    { Page({"rte"},
           <<Elem(1, HdrMonday.text, <<>>),
             Elem(1, <<>>, <<Span(Red, <<Training(t1, t2)>>)>>)>>)
        : t1 \in Tokens, t2 \in {T1215am} }
    \cup
    { Page({"rte"},
           <<Elem(1, HdrMonday.text, <<>>),
             Elem(1, <<>>, <<Span(Red, <<Training(t1, t2)>>)>>)>>)
        : t1 \in {T1145pm}, t2 \in Tokens }
    \cup { Page({}, <<>>) }

\* A reading of the wall clock: the instant in UTC and the date it is in
\* America/New_York.
Reading(utc_date, utc_time, ny_date) ==
    [utc |-> [date |-> utc_date, time |-> utc_time, tz |-> "UTC"],
     today |-> ny_date]

Clock ==
    { Reading(Date(2026, 11, 4), [hour |-> 15, minute |-> 0, second |-> 9],
              Date(2026, 11, 4)),
      Reading(Date(2024, 3, 1), [hour |-> 2, minute |-> 30, second |-> 0],
              Date(2024, 2, 29)),
      Reading(Date(2025, 1, 5), [hour |-> 18, minute |-> 5, second |-> 59],
              Date(2025, 1, 5)) }

NoReading == Reading(Date(1, 1, 1), [hour |-> 0, minute |-> 0, second |-> 0],
                     Date(1, 1, 1))
NoDate == Date(1, 1, 1)

\* gym-closed.ics: absent, or left by an earlier run.
NoFile == [exists |-> FALSE, content |-> <<>>]
StaleFile ==
    [exists |-> TRUE,
     content |-> build_ics(<<ClosedBlock("FRIDAY", Time(6, 0), Time(7, 0))>>,
                           Date(2020, 1, 6),
                           [date |-> Date(2020, 1, 6),
                            time |-> [hour |-> 8, minute |-> 0, second |-> 0],
                            tz |-> "UTC"])]

(* ---------------------------------------------------------------------- *)
(* extract_blocks                                                         *)
(* ---------------------------------------------------------------------- *)
\* A selector matching any class that starts with rte.
has_container_prefix(page) == \E c \in page.classes : c \in {"rte", "rte-like"}

\* soup.select_one("div.rte") is not None
has_container(page) == "rte" \in page.classes

\* The colour of the line taken for the colour of each of its runs.
span_is_red_in_line(spans, k) ==
    \E j \in 1..Len(spans) : style_has_red(spans[j].style)

\* style_has_red(sp.get("style")) for the k-th span of find_all("span")
span_is_red(spans, k) == style_has_red(spans[k].style)

\* The loop over the spans of one p/div, from span k on: the blocks it
\* appends, each with the span it comes from, and whether parse_ampm raised.
RECURSIVE SpanLoop(_, _, _, _)
SpanLoop(spans, k, day, acc) ==
    IF k > Len(spans) THEN [raised |-> FALSE, out |-> acc]
    ELSE LET sp == spans[k]
             m == TimeRangeSearch(sp.text)
         IN  IF sp.text = <<>> \/ ~HasTrainingWord(sp.text)
             THEN SpanLoop(spans, k + 1, day, acc)
             ELSE IF m = 0
             THEN SpanLoop(spans, k + 1, day, acc)
             ELSE IF ~span_is_red(spans, k)
             THEN SpanLoop(spans, k + 1, day, acc)
             ELSE LET start_t == parse_ampm(sp.text[m].t1)
                      end_t == parse_ampm(sp.text[m].t2)
                  IN  IF ~start_t.ok \/ ~end_t.ok
                      THEN [raised |-> TRUE, out |-> acc]
                      ELSE SpanLoop(spans, k + 1, day,
                               Append(acc,
                                   [block |-> ClosedBlock(day, start_t, end_t),
                                    owner |-> sp.owner, pos |-> sp.pos]))

(* ---------------------------------------------------------------------- *)
(* main                                                                   *)
(* ---------------------------------------------------------------------- *)
NoDoc == <<>>

\* The output file opened before the blocks are extracted.
ready_to_open_early(p) == p \in {"extract", "open"}

\* The position at which main opens the output file.
ready_to_open(p) == p = "open"

Idle ==
    /\ resp = NoPage
    /\ err = "none"
    /\ i = 0
    /\ current_day = None
    /\ blocks = <<>>
    /\ origin = <<>>
    /\ week_start = NoDate
    /\ clock = NoReading
    /\ ics = NoDoc
    /\ calls = <<>>

Init ==
    /\ site \in Pages
    /\ file \in {NoFile, StaleFile}
    /\ pc = "fetch"
    /\ Idle

InitParse ==
    /\ site \in TokenPages
    /\ file = NoFile
    /\ pc = "fetch"
    /\ Idle

\* resp = requests.get(SCHEDULE_URL, timeout=30); resp.raise_for_status()
Fetch ==
    /\ pc = "fetch"
    /\ \E outcome \in {"ok", "ConnectionError", "HTTPError"} :
          IF outcome = "ok"
          THEN /\ resp' = site
               /\ pc' = "extract"
               /\ err' = err
          ELSE /\ resp' = resp
               /\ pc' = "aborted"
               /\ err' = outcome
    /\ UNCHANGED <<site, i, current_day, blocks, origin, week_start, clock,
                   ics, file, calls>>

\* extract_blocks up to its loop: the container lookup and the raise.
ExtractBegin ==
    /\ pc = "extract"
    /\ IF has_container(resp)
       THEN /\ pc' = "walk"
            /\ i' = 1
            /\ err' = err
       ELSE /\ pc' = "aborted"
            /\ i' = i
            /\ err' = "RuntimeError"
    /\ UNCHANGED <<site, resp, current_day, blocks, origin, week_start, clock,
                   ics, file, calls>>

\* One iteration of the loop over rte.find_all(["p", "div"]).
WalkStep ==
    /\ pc = "walk"
    /\ i <= Len(resp.elems)
    /\ LET text == get_text(resp.elems, i)
           day == normalize_day(text)
           r == SpanLoop(find_all_span(resp.elems, i), 1, current_day, <<>>)
       IN  IF text = <<>>
           THEN /\ i' = i + 1
                /\ UNCHANGED <<pc, err, current_day, blocks, origin>>
           ELSE IF day # None
           THEN /\ current_day' = day
                /\ i' = i + 1
                /\ UNCHANGED <<pc, err, blocks, origin>>
           ELSE IF current_day = None
           THEN /\ i' = i + 1
                /\ UNCHANGED <<pc, err, current_day, blocks, origin>>
           ELSE /\ blocks' = blocks \o [k \in 1..Len(r.out) |-> r.out[k].block]
                /\ origin' = origin \o
                      [k \in 1..Len(r.out) |->
                          [elem |-> i, owner |-> r.out[k].owner,
                           pos |-> r.out[k].pos]]
                /\ IF r.raised
                   THEN pc' = "aborted" /\ err' = "ValueError" /\ i' = i
                   ELSE pc' = pc /\ err' = err /\ i' = i + 1
                /\ UNCHANGED current_day
    /\ UNCHANGED <<site, resp, week_start, clock, ics, file, calls>>

\* return blocks
WalkEnd ==
    /\ pc = "walk"
    /\ i > Len(resp.elems)
    /\ pc' = "clock"
    /\ UNCHANGED <<site, resp, err, i, current_day, blocks, origin, week_start,
                   clock, ics, file, calls>>

\* today = datetime.now(TZ).date(); week_start = monday_of_week(today)
ReadClock ==
    /\ pc = "clock"
    /\ \E c \in Clock :
          /\ clock' = c
          /\ week_start' = monday_of_week(c.today)
    /\ pc' = "build"
    /\ UNCHANGED <<site, resp, err, i, current_day, blocks, origin, ics, file,
                   calls>>

\* ics = build_ics(blocks, week_start)
Build ==
    /\ pc = "build"
    /\ ics' = build_ics(blocks, week_start, clock.utc)
    /\ pc' = "open"
    /\ UNCHANGED <<site, resp, err, i, current_day, blocks, origin, week_start,
                   clock, file, calls>>

\* open(out_path, "w", ...): the file is created or truncated
Open ==
    /\ ready_to_open(pc)
    /\ file' = [exists |-> TRUE, content |-> <<>>]
    /\ pc' = "write"
    /\ UNCHANGED <<site, resp, err, i, current_day, blocks, origin, week_start,
                   clock, ics, calls>>

\* f.write(ics), the file is closed, the summary is printed
Write ==
    /\ pc = "write"
    /\ file' = [file EXCEPT !.content = ics]
    /\ pc' = "done"
    /\ UNCHANGED <<site, resp, err, i, current_day, blocks, origin, week_start,
                   clock, ics, calls>>

Next ==
    \/ Fetch
    \/ ExtractBegin
    \/ WalkStep
    \/ WalkEnd
    \/ ReadClock
    \/ Build
    \/ Open
    \/ Write

Spec == Init /\ [][Next]_vars

SpecParse == InitParse /\ [][Next]_vars

(* ---------------------------------------------------------------------- *)
(* build_ics called on its own: twice, on the same blocks and week_start  *)
(* ---------------------------------------------------------------------- *)
\* A block on every day of the week, and blocks whose end is not after
\* their start.
SampleBlocks ==
    { ClosedBlock(DAYS[d], Time(6, 0), Time(7, 0)) : d \in 1..Len(DAYS) }
      \cup { ClosedBlock("SUNDAY", Time(23, 45), Time(0, 15)),
             ClosedBlock("MONDAY", Time(23, 45), Time(0, 15)),
             ClosedBlock("WEDNESDAY", Time(12, 30), Time(12, 30)) }

BlockSeqs == UNION {[1..n -> SampleBlocks] : n \in 0..MaxBlocks}

WeekStarts == {Date(2024, 2, 26), Date(2024, 12, 30), Date(2023, 2, 27)}

Instants == {c.utc : c \in Clock}

InitBuild ==
    /\ site = NoPage
    /\ file = NoFile
    /\ pc = "call"
    /\ resp = NoPage
    /\ err = "none"
    /\ i = 0
    /\ current_day = None
    /\ blocks \in BlockSeqs
    /\ origin = <<>>
    /\ week_start \in WeekStarts
    /\ clock = NoReading
    /\ ics = NoDoc
    /\ calls = <<>>

\* build_ics(blocks, week_start) at the instant utc
BuildCall ==
    /\ pc = "call"
    /\ Len(calls) < 2
    /\ \E utc \in Instants :
          calls' = Append(calls, [now |-> utc,
                                  doc |-> build_ics(blocks, week_start, utc)])
    /\ UNCHANGED <<site, pc, resp, err, i, current_day, blocks, origin,
                   week_start, clock, ics, file>>

NextBuild == BuildCall

SpecBuild == InitBuild /\ [][NextBuild]_vars

(* ---------------------------------------------------------------------- *)
(* Vocabulary of the properties                                           *)
(* ---------------------------------------------------------------------- *)
\* The styled runs of a container, each named by its p/div and position.
Runs(elems) ==
    UNION {{[owner |-> j, pos |-> s] : s \in 1..Len(elems[j].spans)}
             : j \in 1..Len(elems)}

RunSpan(elems, r) == elems[r.owner].spans[r.pos]

\* A day header: a p/div whose whole text is a weekday name in any letter
\* case, trailing colons allowed.
WeekdayNames == {"MONDAY", "TUESDAY", "WEDNESDAY", "THURSDAY", "FRIDAY",
                 "SATURDAY", "SUNDAY"}
IsDayHeader(elems, j) ==
    LET text == get_text(elems, j)
    IN  Len(text) = 1 /\ text[1].kind = "word" /\ text[1].word \in WeekdayNames

HeadersBefore(elems, j) == {h \in 1..(j - 1) : IsDayHeader(elems, h)}

\* The nearest day header before element j (there is one).
NearestDay(elems, j) ==
    LET h == CHOOSE x \in HeadersBefore(elems, j) :
                \A y \in HeadersBefore(elems, j) : y <= x
    IN  get_text(elems, h)[1].word

\* The style holds one of the three red markers, spaces and letter case
\* disregarded.
StatedMarkers == {MarkerRgbSpaced, MarkerHex, MarkerColorRed}
HoldsRedMarker(style) ==
    /\ style.has
    /\ \E mk \in StatedMarkers :
          Contains(RemoveSpaces(StrLower(style.chars)),
                   RemoveSpaces(StrLower(mk)))

\* The text matches Training <time>-<time>.
MatchesTraining(text) == \E k \in 1..Len(text) : text[k].kind = "training"
FirstTraining(text) ==
    text[CHOOSE k \in 1..Len(text) :
            /\ text[k].kind = "training"
            /\ \A j \in 1..(k - 1) : text[j].kind # "training"]

\* A token of the 12-hour clock: hour 1..12 in one or two digits, minute
\* 00..59, am/pm in any case, spaces at most before am/pm.
IsClockToken(t) ==
    /\ DigitsValue(t.hh) \in 1..12
    /\ DigitsValue(t.mm) \in 0..59
    /\ \A k \in 1..Len(t.ws) : t.ws[k] = " "

IsPm(t) == t.ap[1] \in {"p", "P"}

\* The 24-hour reading of a clock token.
ClockReading(t) ==
    LET h == DigitsValue(t.hh)
    IN  [ok |-> TRUE,
         hour |-> IF h = 12 THEN (IF IsPm(t) THEN 12 ELSE 0)
                  ELSE IF IsPm(t) THEN h + 12 ELSE h,
         minute |-> DigitsValue(t.mm),
         second |-> 0]

BlocksOf(r) ==
    {k \in 1..Len(origin) : origin[k].owner = r.owner /\ origin[k].pos = r.pos}

Fetched == resp # NoPage

\* extract_blocks has returned its list.
Extracted == pc \in {"clock", "build", "open", "write", "done"}

(* ---------------------------------------------------------------------- *)
(* Properties                                                             *)
(* ---------------------------------------------------------------------- *)

\* C1: a page without a div of class rte makes extract_blocks raise
\* RuntimeError; no block is collected and no list, empty or partial, is
\* returned.
C1_NoContainerRaises ==
    (Fetched /\ "rte" \notin resp.classes /\ pc # "extract")
        => /\ pc = "aborted"
           /\ err = "RuntimeError"
           /\ blocks = <<>>

C1_Witness ==
    /\ Fetched
    /\ "rte" \notin resp.classes
    /\ resp.elems # <<>>
    /\ pc = "aborted"
    /\ err = "RuntimeError"

\* C2: once extract_blocks has returned, every run after a day header whose
\* style holds a red marker and whose text matches Training <time>-<time>
\* has exactly one block, carrying its two parsed times, however the run is
\* nested in p/div elements.
C2_ExactlyOneBlockPerRedRun ==
    Extracted =>
        \A r \in Runs(resp.elems) :
            LET sp == RunSpan(resp.elems, r)
            IN  ( /\ HeadersBefore(resp.elems, r.owner) # {}
                  /\ HoldsRedMarker(sp.style)
                  /\ MatchesTraining(sp.text) )
                    => /\ Cardinality(BlocksOf(r)) = 1
                       /\ \A k \in BlocksOf(r) :
                             /\ blocks[k].start = parse_ampm(FirstTraining(sp.text).t1)
                             /\ blocks[k].end = parse_ampm(FirstTraining(sp.text).t2)

\* C3: every block comes from a run whose own style holds a red marker,
\* whatever the styles of the runs beside it; MONDAY followed by one
\* paragraph with a red run 6:00am-7:00am and an unstyled run 7:00am-8:00am
\* gives exactly the block (MONDAY, 06:00, 07:00).
MondayScenario ==
    Page({"rte"}, <<Elem(1, HdrMonday.text, HdrMonday.spans),
                    Elem(1, LineTwo.text, LineTwo.spans)>>)

C3_OnlyOwnRedStyle ==
    /\ \A k \in 1..Len(origin) :
          HoldsRedMarker(RunSpan(resp.elems, origin[k]).style)
    /\ (Extracted /\ resp = MondayScenario)
          => blocks = <<ClosedBlock("MONDAY", Time(6, 0), Time(7, 0))>>

C3_Witness ==
    /\ Extracted
    /\ resp = MondayScenario
    /\ Len(blocks) = 1
    /\ ~HoldsRedMarker(resp.elems[2].spans[2].style)

\* C4: a red run whose text matches the pattern and whose time token is
\* no 12-hour time is skipped: extract_blocks does not raise on it.
C4_BadTimeSkipped == ~(pc = "aborted" /\ err = "ValueError")

\* C5: gym-closed.ics is opened and written only after the fetch,
\* extract_blocks and build_ics have succeeded; a run that aborts leaves the
\* file as it was, neither created nor truncated nor partly written.
C5_FileOnlyAfterSuccess ==
    /\ pc \notin {"write", "done"} => file \in {NoFile, StaleFile}
    /\ pc \in {"write", "done"}
          => /\ err = "none"
             /\ resp = site
             /\ "rte" \in resp.classes
             /\ i > Len(resp.elems)
             /\ ics # NoDoc
             /\ file.exists
             /\ file.content \in {<<>>, ics}
    /\ pc = "done" => file.content = ics
    /\ pc = "aborted" => err # "none"

C5_Witness ==
    /\ pc = "aborted"
    /\ err \in {"HTTPError", "RuntimeError"}
    /\ file = StaleFile

\* C8: parse_ampm reads every 12-hour token (any letter case, spaces before
\* am/pm allowed) as the 24-hour time with zero seconds, 12am being 00 and
\* 12pm being 12, and does not raise on it; the red run
\* "Training 11:45pm-12:15am" gives start 23:45 and end 00:15.
C8_ParseAmPm ==
    /\ \A k \in 1..Len(blocks) :
          LET tr == FirstTraining(RunSpan(resp.elems, origin[k]).text)
          IN  /\ blocks[k].start = ClockReading(tr.t1)
              /\ blocks[k].end = ClockReading(tr.t2)
              /\ blocks[k].start.hour \in 0..23
              /\ blocks[k].end.hour \in 0..23
    /\ (Fetched /\ "rte" \in resp.classes /\ pc \notin {"extract", "walk"})
          => \A r \in Runs(resp.elems) :
                LET tr == FirstTraining(RunSpan(resp.elems, r).text)
                IN  ( /\ HoldsRedMarker(RunSpan(resp.elems, r).style)
                      /\ MatchesTraining(RunSpan(resp.elems, r).text)
                      /\ IsClockToken(tr.t1)
                      /\ IsClockToken(tr.t2) )
                        => pc # "aborted" /\ Cardinality(BlocksOf(r)) = 1
    /\ (Extracted /\ \E r \in Runs(resp.elems) :
            RunSpan(resp.elems, r).text = <<Training(T1145pm, T1215am)>>)
          => blocks = <<ClosedBlock("MONDAY", Time(23, 45), Time(0, 15))>>

C8_Witness ==
    /\ Extracted
    /\ blocks = <<ClosedBlock("MONDAY", Time(23, 45), Time(0, 15))>>
    /\ resp.elems[2].spans[1].text = <<Training(T1145pm, T1215am)>>

\* C10: once extract_blocks has returned, every block carries the day of
\* the nearest day header before its run, runs before the first header have
\* no block, and the blocks are in the document order of their runs.
C10_DayAndOrder ==
    Extracted =>
        /\ \A k \in 1..Len(blocks) :
              /\ HeadersBefore(resp.elems, origin[k].owner) # {}
              /\ blocks[k].day_name = NearestDay(resp.elems, origin[k].owner)
        /\ \A k, l \in 1..Len(blocks) :
              k < l => \/ origin[k].owner < origin[l].owner
                       \/ /\ origin[k].owner = origin[l].owner
                          /\ origin[k].pos <= origin[l].pos

(* ---------------------------------------------------------------------- *)
(* Properties of build_ics                                                *)
(* ---------------------------------------------------------------------- *)
LinesNamed(d, name, value) ==
    {k \in 1..Len(d) : d[k].name = name /\ d[k].value = value}

EventStarts(d) == LinesNamed(d, "BEGIN", <<"VEVENT">>)
EventEnds(d) == LinesNamed(d, "END", <<"VEVENT">>)

\* The j-th smallest member of a set of line numbers.
Nth(S, j) == CHOOSE k \in S : Cardinality({x \in S : x < k}) = j - 1

\* The first and last line of each event, in the order of the document.
Events(d) ==
    LET es == EventStarts(d)
        ee == EventEnds(d)
    IN  [j \in 1..Cardinality(es) |->
            [first |-> Nth(es, j),
             last |-> IF j <= Cardinality(ee) THEN Nth(ee, j) ELSE 0]]

\* The line of event ev that is named `name` (there is one).
EventLine(d, ev, name) ==
    d[CHOOSE k \in ev.first..ev.last : d[k].name = name]

DigitOf(ch) == (CHOOSE k \in 1..10 : DigitChars[k] = ch) - 1

RECURSIVE NumberOf(_)
NumberOf(chs) ==
    IF chs = <<>> THEN 0
    ELSE 10 * NumberOf(SubSeq(chs, 1, Len(chs) - 1)) + DigitOf(chs[Len(chs)])

\* The date and the time of day written in a YYYYMMDDTHHMMSS value.
DateIn(v) ==
    Date(NumberOf(SubSeq(v, 1, 4)), NumberOf(SubSeq(v, 5, 6)),
         NumberOf(SubSeq(v, 7, 8)))
SecondsIn(v) ==
    3600 * NumberOf(SubSeq(v, 10, 11)) + 60 * NumberOf(SubSeq(v, 12, 13))
      + NumberOf(SubSeq(v, 14, 15))

IsCalendarDate(d) ==
    /\ d.month \in 1..12
    /\ d.day \in 1..DaysInMonth(d.year, d.month)

SecondsOf(t) == 3600 * t.hour + 60 * t.minute + t.second

\* Monday = 0 ... Sunday = 6
OffsetOf(day) ==
    CASE day = "MONDAY" -> 0  [] day = "TUESDAY" -> 1 [] day = "WEDNESDAY" -> 2
      [] day = "THURSDAY" -> 3 [] day = "FRIDAY" -> 4 [] day = "SATURDAY" -> 5
      [] day = "SUNDAY" -> 6

EventProperties == {"UID", "DTSTAMP", "DTSTART", "DTEND", "SUMMARY",
                    "DESCRIPTION", "STATUS", "TRANSP"}

\* C6: two calls of build_ics on the same blocks and week_start, at any
\* two instants, give documents of the same lines except for DTSTAMP lines;
\* their events agree pairwise in UID, DTSTART, DTEND, SUMMARY and
\* DESCRIPTION, and events of equal date, start and end have equal UIDs.
C6_StableAcrossCalls ==
    Len(calls) = 2 =>
        LET d1 == calls[1].doc
            d2 == calls[2].doc
            e1 == Events(d1)
            e2 == Events(d2)
        IN  /\ Len(d1) = Len(d2)
            /\ \A k \in 1..Len(d1) :
                  d1[k] # d2[k] => d1[k].name = "DTSTAMP" /\ d2[k].name = "DTSTAMP"
            /\ Len(e1) = Len(blocks) /\ Len(e2) = Len(blocks)
            /\ \A j \in 1..Len(blocks) :
                  \A nm \in {"UID", "DTSTART", "DTEND", "SUMMARY", "DESCRIPTION"} :
                      EventLine(d1, e1[j], nm) = EventLine(d2, e2[j], nm)
            /\ \A j, l \in 1..Len(blocks) :
                  ( /\ EventLine(d1, e1[j], "DTSTART").value
                          = EventLine(d2, e2[l], "DTSTART").value
                    /\ EventLine(d1, e1[j], "DTEND").value
                          = EventLine(d2, e2[l], "DTEND").value )
                      => EventLine(d1, e1[j], "UID").value
                            = EventLine(d2, e2[l], "UID").value

C6_Witness ==
    /\ Len(calls) = 2
    /\ calls[1].now # calls[2].now
    /\ Len(blocks) = 2
    /\ blocks[1] # blocks[2]
    /\ calls[1].doc # calls[2].doc

\* C7: DTSTART and DTEND of the event of a block both carry the date
\* week_start + offset(day_name), Monday = 0 ... Sunday = 6, with the
\* block's start and end times unchanged; nothing is rolled over, so with
\* end <= start DTEND is on the same date and not later than DTSTART.
C7_EventDateAndTimes ==
    \A c \in 1..Len(calls) :
        LET d == calls[c].doc
            ev == Events(d)
        IN  /\ Len(ev) = Len(blocks)
            /\ \A j \in 1..Len(blocks) :
                  LET s == EventLine(d, ev[j], "DTSTART")
                      e == EventLine(d, ev[j], "DTEND")
                      b == blocks[j]
                  IN  /\ s.param = "TZID=America/New_York"
                      /\ e.param = "TZID=America/New_York"
                      /\ Len(s.value) = 15 /\ Len(e.value) = 15
                      /\ s.value[9] = "T" /\ e.value[9] = "T"
                      /\ IsCalendarDate(DateIn(s.value))
                      /\ ToOrdinal(DateIn(s.value))
                            = ToOrdinal(week_start) + OffsetOf(b.day_name)
                      /\ DateIn(e.value) = DateIn(s.value)
                      /\ SecondsIn(s.value) = SecondsOf(b.start)
                      /\ SecondsIn(e.value) = SecondsOf(b.end)
                      /\ SecondsOf(b.end) <= SecondsOf(b.start)
                            => SecondsIn(e.value) <= SecondsIn(s.value)

C7_Witness ==
    /\ Len(calls) = 1
    /\ week_start = Date(2024, 2, 26)
    /\ blocks = <<ClosedBlock("WEDNESDAY", Time(6, 0), Time(7, 0)),
                  ClosedBlock("SUNDAY", Time(23, 45), Time(0, 15))>>
    /\ DateIn(EventLine(calls[1].doc, Events(calls[1].doc)[1], "DTSTART").value)
          = Date(2024, 2, 28)
    /\ DateIn(EventLine(calls[1].doc, Events(calls[1].doc)[2], "DTEND").value)
          = Date(2024, 3, 3)

\* C9: the document of n blocks starts with BEGIN:VCALENDAR, ends with
\* END:VCALENDAR, holds one VTIMEZONE block before any event and n VEVENT
\* blocks, bracketed and not nested, the j-th for the j-th block, each with
\* its eight properties exactly once; every other line is of the envelope.
C9_DocumentShape ==
    \A c \in 1..Len(calls) :
        LET d == calls[c].doc
            n == Len(blocks)
            zb == LinesNamed(d, "BEGIN", <<"VTIMEZONE">>)
            ze == LinesNamed(d, "END", <<"VTIMEZONE">>)
            ev == Events(d)
            InZone(k) == \E b \in zb, e \in ze : b <= k /\ k <= e
            InEvent(k) == \E j \in 1..Len(ev) : ev[j].first <= k /\ k <= ev[j].last
        IN  /\ LinesNamed(d, "BEGIN", <<"VCALENDAR">>) = {1}
            /\ LinesNamed(d, "END", <<"VCALENDAR">>) = {Len(d)}
            /\ Cardinality(zb) = 1 /\ Cardinality(ze) = 1
            /\ \A b \in zb, e \in ze : b < e
            /\ \A e \in ze, j \in 1..Len(ev) : e < ev[j].first
            /\ Len(ev) = n
            /\ Cardinality(EventEnds(d)) = n
            /\ \A j \in 1..Len(ev) :
                  /\ ev[j].first < ev[j].last
                  /\ j < Len(ev) => ev[j].last < ev[j + 1].first
                  /\ \A nm \in EventProperties :
                        Cardinality({k \in ev[j].first..ev[j].last : d[k].name = nm}) = 1
            /\ \A j \in 1..n :
                  /\ EventLine(d, ev[j], "SUMMARY").value
                        = <<"Gym Closed (PT) [", Title(blocks[j].day_name), "]">>
                  /\ SecondsIn(EventLine(d, ev[j], "DTSTART").value)
                        = SecondsOf(blocks[j].start)
                  /\ SecondsIn(EventLine(d, ev[j], "DTEND").value)
                        = SecondsOf(blocks[j].end)
            /\ \A k \in 1..Len(d) :
                  \/ InZone(k)
                  \/ InEvent(k)
                  \/ d[k].name \in {"BEGIN", "VERSION", "PRODID", "CALSCALE",
                                    "METHOD", "END"}
                       /\ (d[k].name \in {"BEGIN", "END"}
                             => d[k].value = <<"VCALENDAR">>)

C9_Witness ==
    /\ Len(calls) = 2
    /\ blocks = <<>>
    /\ Len(calls[1].doc) = Len(vtimezone_america_new_york) + 6
    /\ calls[1].doc = calls[2].doc

=============================================================================
